---- MODULE Spec2Model ----
(***************************************************************************)
(* A model of the simulation core of the "jump" game: the fixed-timestep   *)
(* systems player_movement_system, camera_movement_system and              *)
(* check_for_collisions of src/src/game.rs, as registered by               *)
(* GamePlugin::build, driven by the keys the player holds.                 *)
(*                                                                         *)
(* All positions and velocities of the program are f32.  The model keeps   *)
(* the f32 arithmetic: a float is a pair <<m, e>> of integers standing for *)
(* m * 2^e, with 2^23 <= |m| < 2^24, or <<0, 0>> for zero, and every       *)
(* operation rounds to nearest, ties to even, as the hardware does.  The   *)
(* magnitudes met in the game stay far inside the normal range of f32, so  *)
(* subnormals, infinities and NaN are not modelled; the sign of zero is    *)
(* not kept (no operation of the program distinguishes -0.0 from 0.0).     *)
(*                                                                         *)
(* The level of a game is the one Level::new of src/src/level.rs returns   *)
(* for the seed of game_setup, drawn from the ChaCha8Rng of rand_chacha as *)
(* rand's gen_range reads it.  Level::new itself is followed through its   *)
(* loops, and the menus of src/src/menu.rs click by click.                 *)
(***************************************************************************)
EXTENDS Integers, Sequences, FiniteSets, TLC

\* Evaluates a value once and hands it to what follows.
Then(value, Op(_)) == CHOOSE out \in {Op(v) : v \in {value}} : TRUE

----------------------------------------------------------------------------
(* f32 arithmetic *)

\* Number of bits of the significand of an f32.
MantBits == 24

Pow2(n) == 2 ^ n

Abs(n) == IF n < 0 THEN -n ELSE n

Sgn(n) == IF n < 0 THEN -1 ELSE 1

RECURSIVE BitLenFrom(_, _)
\* Number of binary digits of n, given that it has at least k of them.
BitLenFrom(n, k) == IF n < Pow2(k) THEN k ELSE BitLenFrom(n, k + 1)

\* Number of binary digits of the natural number n (0 for 0).
BitLen(n) == IF n >= Pow2(MantBits) THEN BitLenFrom(n, MantBits + 1)
             ELSE BitLenFrom(n, 0)

F32Zero == <<0, 0>>

\* The f32 nearest to sign * (M + f) * 2^E, where M is a natural number and
\* f = 0 when sticky is FALSE, 0 < f < 1 when it is TRUE: round to nearest,
\* ties to even.  With sticky, at least one bit of M must be dropped.
F32Round(sign, M, E, sticky) ==
    IF M = 0 THEN F32Zero
    ELSE LET k == BitLen(M) - MantBits IN
         IF k <= 0 THEN <<sign * M * Pow2(-k), E + k>>
         ELSE LET q    == M \div Pow2(k)
                  r    == M % Pow2(k)
                  half == Pow2(k - 1)
                  up   == \/ r > half
                          \/ r = half /\ (sticky \/ q % 2 = 1)
                  q1   == IF up THEN q + 1 ELSE q
              IN  IF q1 = Pow2(MantBits)
                  THEN <<sign * Pow2(MantBits - 1), E + k + 1>>
                  ELSE <<sign * q1, E + k>>

\* An integer literal as an f32 (exact for |n| < 2^24).
F32Int(n) == F32Round(Sgn(n), Abs(n), 0, FALSE)

F32Neg(a) == <<-a[1], a[2]>>

\* The magnitude of the float a.
F32Abs(a) == <<Abs(a[1]), a[2]>>

\* a + b in f32.  The operand of larger exponent is kept with five extra
\* low bits; what the other operand has below them is the sticky bit.
F32Add(a, b) ==
    IF a[1] = 0 THEN b
    ELSE IF b[1] = 0 THEN a
    ELSE LET hi == IF a[2] >= b[2] THEN a ELSE b
             lo == IF a[2] >= b[2] THEN b ELSE a
             d  == hi[2] - lo[2]
         IN  IF d > MantBits + 2 THEN hi
             ELSE IF d <= 5
             THEN LET s == hi[1] * Pow2(d) + lo[1]
                  IN  F32Round(Sgn(s), Abs(s), lo[2], FALSE)
             ELSE LET H   == Abs(hi[1]) * 32
                      q   == Abs(lo[1]) \div Pow2(d - 5)
                      rem == Abs(lo[1]) % Pow2(d - 5)
                      same == Sgn(hi[1]) = Sgn(lo[1])
                      S   == IF same THEN H + q
                             ELSE IF rem = 0 THEN H - q ELSE H - q - 1
                  IN  F32Round(Sgn(hi[1]), S, hi[2] - 5, rem # 0)

F32Sub(a, b) == F32Add(a, F32Neg(b))

\* a * b in f32.  The 48-bit product of the significands is formed from
\* 12-bit halves, so that no intermediate value exceeds 31 bits.
F32Mul(a, b) ==
    IF a[1] = 0 \/ b[1] = 0 THEN F32Zero
    ELSE LET A   == Abs(a[1])
             B   == Abs(b[1])
             a1  == A \div 4096
             a0  == A % 4096
             b1  == B \div 4096
             b0  == B % 4096
             mid == a1 * b0 + a0 * b1
             los == (mid % 4096) * 4096 + a0 * b0
             hi  == a1 * b1 + (mid \div 4096) + (los \div Pow2(24))
             lo  == los % Pow2(24)
         IN  F32Round(Sgn(a[1]) * Sgn(b[1]),
                      hi * 4 + (lo \div Pow2(22)),
                      a[2] + b[2] + 22,
                      lo % Pow2(22) # 0)

RECURSIVE DivBits(_, _, _, _)
\* n more quotient bits of rem / den (rem < den), appended to quo; the
\* result is <<quotient, remainder>>.
DivBits(rem, den, quo, n) ==
    IF n = 0 THEN <<quo, rem>>
    ELSE IF 2 * rem >= den
         THEN DivBits(2 * rem - den, den, 2 * quo + 1, n - 1)
         ELSE DivBits(2 * rem, den, 2 * quo, n - 1)

\* a / b in f32 (b # 0): 26 quotient bits by long division, then rounding.
F32Div(a, b) ==
    IF a[1] = 0 THEN F32Zero
    ELSE LET A  == Abs(a[1])
             B  == Abs(b[1])
             q0 == IF A >= B THEN 1 ELSE 0
             r0 == IF A >= B THEN A - B ELSE A
             qr == DivBits(r0, B, q0, 26)
         IN  F32Round(Sgn(a[1]) * Sgn(b[1]), qr[1], a[2] - b[2] - 26, qr[2] # 0)

RECURSIVE ISqrtFrom(_, _)
\* floor(sqrt(n)) by Newton's iteration from a guess x >= sqrt(n), n > 0.
ISqrtFrom(n, x) ==
    LET y == (x + n \div x) \div 2
    IN  IF y >= x THEN x ELSE ISqrtFrom(n, y)

\* sqrt(a) in f32 (a >= 0).  The radicand is scaled to top * 2^26 with
\* 2^24 <= top < 2^26 and an even exponent left over.  Its integer root is
\* r * 2^13 + d, where r = floor(sqrt(top)) and d is found from the
\* remainder of top: with top = r*r + t and t * 2^12 = q*r + u, the root
\* digit d is q when q*q <= u * 2^14 and q - 1 otherwise.  A non-zero
\* remainder of the whole root is the sticky bit of the rounding.
F32Sqrt(a) ==
    IF a[1] = 0 THEN F32Zero
    ELSE LET odd == a[2] % 2 # 0
             top == IF odd THEN 2 * a[1] ELSE 4 * a[1]
             e   == IF odd THEN a[2] - 27 ELSE a[2] - 28
             r   == ISqrtFrom(top, 8192)
             t   == top - r * r
             q   == (t * 4096) \div r
             u   == (t * 4096) % r
             d   == IF q * q <= u * 16384 THEN q ELSE q - 1
             rem == ((q - d) * r + u) * 16384 - d * d
         IN  F32Round(1, r * 8192 + d, e \div 2, rem # 0)

\* Comparisons of two f32 values.
F32Lt(a, b) ==
    IF a[1] = 0 THEN b[1] > 0
    ELSE IF b[1] = 0 THEN a[1] < 0
    ELSE IF Sgn(a[1]) # Sgn(b[1]) THEN a[1] < 0
    ELSE IF a[1] > 0
         THEN a[2] < b[2] \/ (a[2] = b[2] /\ a[1] < b[1])
         ELSE a[2] > b[2] \/ (a[2] = b[2] /\ a[1] < b[1])

F32Le(a, b) == a = b \/ F32Lt(a, b)

----------------------------------------------------------------------------
(* Constants of src/src/game.rs *)

\* const TIME_STEP: f32 = 1.0 / 60.0
TIME_STEP == F32Div(F32Int(1), F32Int(60))

JUMP_INITIAL_VELOCITY == F32Int(5)

GRAVITY == F32Int(5)

SCROLL_VELOCITY == F32Int(2)

BOOST_VELOCITY == F32Int(5)

\* const SPHERE_RADIUS: f32 = 0.5
SPHERE_RADIUS == F32Div(F32Int(1), F32Int(2))

\* GRAVITY * TIME_STEP
GravityStep == F32Mul(GRAVITY, TIME_STEP)

\* SPHERE_RADIUS * 2.0
CollisionDistance == F32Mul(SPHERE_RADIUS, F32Int(2))

\* The two keys the systems read.
Keys == {"Space", "Right"}

\* enum JumpState
JumpState == {"OnFloor", "InAir"}

\* The three systems of the fixed-timestep set that act on the world.
Systems == {"player_movement_system", "camera_movement_system",
            "check_for_collisions"}

\* The orders in which a run of the system set may execute them: they are
\* added with with_system, with no label and no before/after constraint, so
\* the schedule fixes no order between them.
Orders == {o \in Systems \X Systems \X Systems : \A s \in Systems : \E i \in 1..3 : o[i] = s}

\* The order in which GamePlugin::build adds the systems.
RegistrationOrder ==
    <<"player_movement_system", "camera_movement_system", "check_for_collisions">>

----------------------------------------------------------------------------
(* Bounds of the model *)

\* Ticks of the fixed timestep followed in one run.
MaxTicks == 125

\* Key presses and releases during one run (any keys may be held at start).
MaxKeyEvents == 1

\* The key presses and releases of a run fall before this tick.
KeyWindow == 3

\* A run is followed until this many collision events have been sent.
MaxEvents == 3

----------------------------------------------------------------------------
(* State *)

VARIABLES
    obstacles,         \* translations <<x, y>> of the Collider entities
    player,            \* Player component and the x, y of its Transform, of
                       \* the Player entity spawned first
    camera,            \* Camera component and the x of its Transform, of
                       \* the Camera entity spawned first
    collision_events,  \* CollisionEvents sent so far
    score,             \* value of the second section of the ScoreText
                       \* spawned first
    keyboard_input,    \* keys currently pressed (Input<KeyCode>)
    ticks,             \* runs of the fixed-timestep system set in which its
                       \* systems have found their entities
    boost_ticks,       \* those of them with the boost key held
    jump_ticks,        \* ticks the player has moved in its current flight
    key_events,        \* key presses and releases so far
    levels,            \* the Levels that calls of Level::new have returned
    call,              \* the call of Level::new that is running, if any
    panicked,          \* an unwrap has met an Err: the process has panicked
    game_state,        \* State<GameState>
    menu_state,        \* State<MenuState>
    seed_state,        \* value of State<SeedState>
    seed_text,         \* the seed text game_setup has spawned last
    clicks,            \* button clicks menu_action has handled
    app_exit,          \* AppExit has been sent
    setups,            \* runs of game_setup whose entities are in the world:
                       \* the number of Player, Camera and ScoreText entities
    setup_pending      \* GameState::Game was set, game_setup has yet to run

\* The state of the menus and of the application around a game.
app_vars == <<game_state, menu_state, seed_state, seed_text, clicks, app_exit,
              setups, setup_pending>>

vars == <<obstacles, player, camera, collision_events, score, keyboard_input,
          ticks, boost_ticks, jump_ticks, key_events, levels, call, panicked,
          game_state, menu_state, seed_state, seed_text, clicks, app_exit,
          setups, setup_pending>>

\* "".to_string(): the score section before the score system has run.  A
\* written score is the pair <<negative, hundredths>>.
EmptyText == <<>>

\* Player::default() and the Transform::from_xyz(-5.0, 0.0, 0.0) it is
\* spawned with.
PlayerDefault ==
    [x |-> F32Int(-5), y |-> F32Zero,
     jumping |-> "OnFloor", velocity_x |-> SCROLL_VELOCITY,
     velocity_y |-> F32Zero, collided |-> FALSE]

\* Camera::default() and the Transform::from_xyz(0.0, 0.0, 8.0) it is
\* spawned with.
CameraDefault ==
    [x |-> F32Zero, velocity_x |-> SCROLL_VELOCITY, stopped |-> FALSE]

\* Fixed testing seed of game.rs.
FIXED_RNG_SEED == 305419896

\* The digits of n in base 16, most significant first, as {:x} writes them.
RECURSIVE LowerHex(_)
LowerHex(n) == IF n < 16 THEN <<n>> ELSE Append(LowerHex(n \div 16), n % 16)

\* The number a text of base 16 digits stands for.
RECURSIVE HexValue(_)
HexValue(digits) ==
    IF digits = <<>> THEN 0
    ELSE 16 * HexValue(SubSeq(digits, 1, Len(digits) - 1)) + digits[Len(digits)]

\* format!("Seed: {:#x}", n): the text before the digits, and the digits.
SeedText(n) == [prefix |-> "Seed: 0x", digits |-> LowerHex(n)]

\* No seed text has been spawned.
NoSeedText == [prefix |-> "", digits |-> <<>>]

\* The seed text of game_setup.
SeedDisplay == SeedText(FIXED_RNG_SEED)

----------------------------------------------------------------------------
(* The systems.  A world is the record [player, camera, collision_events]. *)

World == [player |-> player, camera |-> camera,
          collision_events |-> collision_events]

\* Horizontal velocity chosen from the boost key.
HorizontalVelocity(keys) ==
    IF "Right" \in keys THEN BOOST_VELOCITY ELSE SCROLL_VELOCITY

\* A jump trigger that does not look at the jump state.
JumpTriggerInAir(p, keys) ==
    IF "Space" \in keys
    THEN [p EXCEPT !.jumping = "InAir", !.velocity_y = JUMP_INITIAL_VELOCITY]
    ELSE p

\* A jump trigger that adds the initial velocity to the current one.
JumpTriggerAdds(p, keys) ==
    IF "Space" \in keys /\ p.jumping = "OnFloor"
    THEN [p EXCEPT !.jumping = "InAir",
                   !.velocity_y = F32Add(p.velocity_y, JUMP_INITIAL_VELOCITY)]
    ELSE p

\* A jump trigger whose initial velocity grows with the boost.
JumpTriggerBoosted(p, keys) ==
    IF "Space" \in keys /\ p.jumping = "OnFloor"
    THEN [p EXCEPT !.jumping = "InAir",
                   !.velocity_y = F32Add(JUMP_INITIAL_VELOCITY, HorizontalVelocity(keys))]
    ELSE p

\* The jump trigger of player_movement_system.
JumpTrigger(p, keys) ==
    IF "Space" \in keys /\ p.jumping = "OnFloor"
    THEN [p EXCEPT !.jumping = "InAir", !.velocity_y = JUMP_INITIAL_VELOCITY]
    ELSE p

\* A floor clamp that also takes a player standing on the floor.
FloorClampInclusive(p) ==
    IF F32Le(p.y, F32Zero)
    THEN [p EXCEPT !.jumping = "OnFloor", !.velocity_y = F32Zero, !.y = F32Zero]
    ELSE p

\* "floor min height"
FloorClamp(p) ==
    IF F32Lt(p.y, F32Zero)
    THEN [p EXCEPT !.jumping = "OnFloor", !.velocity_y = F32Zero, !.y = F32Zero]
    ELSE p

\* Gravity, then the vertical integration by jump state.
Fall(p) ==
    LET velocity == F32Sub(p.velocity_y, GravityStep)
    IN  [p EXCEPT !.velocity_y = velocity,
                  !.y = IF p.jumping = "OnFloor" THEN F32Zero
                        ELSE F32Add(p.y, F32Mul(velocity, TIME_STEP))]

\* An x direction that moves by the velocity of the tick before.
AdvanceStale(p, keys) ==
    [p EXCEPT !.velocity_x = HorizontalVelocity(keys),
              !.x = F32Add(p.x, F32Mul(p.velocity_x, TIME_STEP))]

\* The x direction of player_movement_system.
Advance(p, keys) ==
    LET v == HorizontalVelocity(keys)
    IN  [p EXCEPT !.velocity_x = v, !.x = F32Add(p.x, F32Mul(v, TIME_STEP))]

\* A player system that puts a collided player back at the start.
PlayerRespawns(w, keys) ==
    IF w.player.collided THEN [w EXCEPT !.player = PlayerDefault]
    ELSE [w EXCEPT !.player = Fall(FloorClamp(JumpTrigger(Advance(w.player, keys), keys)))]

\* A player system without the early return on collided.
PlayerNeverStops(w, keys) ==
    [w EXCEPT !.player = Fall(FloorClamp(JumpTrigger(Advance(w.player, keys), keys)))]

\* A player system that clamps to the floor before it looks at the jump key.
PlayerClampsFirst(w, keys) ==
    IF w.player.collided THEN w
    ELSE [w EXCEPT !.player = Fall(JumpTrigger(FloorClamp(Advance(w.player, keys)), keys))]

player_movement_system(w, keys) ==
    IF w.player.collided THEN w
    ELSE [w EXCEPT !.player = Fall(FloorClamp(JumpTrigger(Advance(w.player, keys), keys)))]

camera_movement_system(w, keys) ==
    IF w.camera.stopped THEN w
    ELSE LET v == HorizontalVelocity(keys)
         IN  [w EXCEPT !.camera.velocity_x = v,
                       !.camera.x = F32Add(w.camera.x, F32Mul(v, TIME_STEP))]

\* x.powf(2.0): the values a build can give.  The precision of powf is not
\* specified: an optimised build folds it to x * x, rounded to nearest, a
\* build that calls the C library gets a result within one unit in the last
\* place of the square.  Both are among the two f32 values next to the exact
\* square (one value when the square is an f32).
Powf2(x) ==
    IF x[1] = 0 THEN {F32Zero}
    ELSE LET A   == Abs(x[1])
             a1  == A \div 4096
             a0  == A % 4096
             mid == 2 * a1 * a0
             los == (mid % 4096) * 4096 + a0 * a0
             hi  == a1 * a1 + (mid \div 4096) + (los \div Pow2(24))
             lo  == los % Pow2(24)
             M   == hi * 4 + (lo \div Pow2(22))
             k   == BitLen(M) - MantBits
             q   == M \div Pow2(k)
             E   == 2 * x[2] + 22 + k
             exact == M % Pow2(k) = 0 /\ lo % Pow2(22) = 0
             up  == IF q + 1 = Pow2(MantBits) THEN <<Pow2(MantBits - 1), E + 1>>
                    ELSE <<q + 1, E>>
         IN  IF exact THEN {<<q, E>>} ELSE {<<q, E>>, up}

\* let distance = ((ox - px).powf(2.0) + (oy - py).powf(2.0)).sqrt(): the
\* values a build can give.
Distance(o, p) ==
    LET dx == F32Sub(o[1], p.x)
        dy == F32Sub(o[2], p.y)
    IN  {F32Sqrt(F32Add(sx, sy)) : sx \in Powf2(dx), sy \in Powf2(dy)}

\* An overlap test that leaves the boundary out.
OverlapsStrictly(o, p) == {F32Lt(d, CollisionDistance) : d \in Distance(o, p)}

\* if distance <= SPHERE_RADIUS * 2.0: the outcomes of the test.
Overlaps(o, p) == {F32Le(d, CollisionDistance) : d \in Distance(o, p)}

\* The obstacle is at least 2.0 from the player in x.  Then (x2 - x1).powf(2.0)
\* is at least 4.0 whichever way it is rounded, the sum is at least 4.0, the
\* distance is at least 2.0, and the test of the loop fails.
OutOfReach(o, p) == F32Le(F32Int(2), F32Abs(F32Sub(o[1], p.x)))

\* for transform in collider_query.iter(): the sets of obstacles (by index)
\* the loop can find overlapping the player: those that overlap whatever
\* powf gives, with any of those that overlap for some of its values.  The
\* distance is worked out for the obstacles that are not out of reach; for
\* the others the test is known to fail.
Overlapping(obs, p) ==
    LET near == {i \in 1..Len(obs) : ~OutOfReach(obs[i], p)}
        may  == {i \in near : TRUE \in Overlaps(obs[i], p)}
        sure == {i \in may : FALSE \notin Overlaps(obs[i], p)}
    IN  {sure \cup some : some \in SUBSET (may \ sure)}

\* A variant that freezes the player and leaves the camera scrolling.
check_for_collisions_player_only(w, obs) ==
    {IF found = {} THEN w
     ELSE [w EXCEPT !.collision_events = @ + Cardinality(found),
                    !.player.collided = TRUE] : found \in Overlapping(obs, w.player)}

\* A variant that sends the events and stops the camera but leaves the
\* player's collided flag alone.
check_for_collisions_camera_only(w, obs) ==
    {IF found = {} THEN w
     ELSE [w EXCEPT !.collision_events = @ + Cardinality(found),
                    !.camera.stopped = TRUE] : found \in Overlapping(obs, w.player)}

\* The worlds the system can leave: one for each set of obstacles the loop
\* can find overlapping.
check_for_collisions(w, obs) ==
    {IF found = {} THEN w
     ELSE [w EXCEPT !.collision_events = @ + Cardinality(found),
                    !.player.collided = TRUE,
                    !.camera.stopped = TRUE] : found \in Overlapping(obs, w.player)}

\* The worlds one system can leave.
RunSystem(name, w, keys, obs) ==
    CASE name = "player_movement_system" -> {player_movement_system(w, keys)}
      [] name = "camera_movement_system" -> {camera_movement_system(w, keys)}
      [] name = "check_for_collisions"   -> check_for_collisions(w, obs)

\* One run of the fixed-timestep system set, the systems taken in order: the
\* worlds it can leave.
RunSystems(order, w, keys, obs) ==
    UNION {UNION {RunSystem(order[3], w2, keys, obs)
                    : w2 \in RunSystem(order[2], w1, keys, obs)}
             : w1 \in RunSystem(order[1], w, keys, obs)}

\* The worlds one run of the system set can leave, over all orders.
TickOutcomes(w, keys, obs) ==
    UNION {RunSystems(order, w, keys, obs) : order \in Orders}

----------------------------------------------------------------------------
(* The generator of Level::new: ChaCha8Rng of rand_chacha, seeded and read
   through rand.  A u32 is the pair <<high half, low half>> of its 16-bit
   halves; a u64 is the sequence of its four 16-bit limbs, lowest first. *)

\* 2^16: a u32 is kept as two halves below it.
Half == Pow2(16)

\* Exclusive or of two numbers below 2^bits.
RECURSIVE XorBits(_, _, _)
XorBits(a, b, bits) ==
    IF bits = 0 THEN 0
    ELSE 2 * XorBits(a \div 2, b \div 2, bits - 1) + ((a + b) % 2)

\* Exclusive or of the hexadecimal digit a with each hexadecimal digit.
XorRow(a) ==
    <<XorBits(a, 0, 4), XorBits(a, 1, 4), XorBits(a, 2, 4), XorBits(a, 3, 4),
      XorBits(a, 4, 4), XorBits(a, 5, 4), XorBits(a, 6, 4), XorBits(a, 7, 4),
      XorBits(a, 8, 4), XorBits(a, 9, 4), XorBits(a, 10, 4), XorBits(a, 11, 4),
      XorBits(a, 12, 4), XorBits(a, 13, 4), XorBits(a, 14, 4), XorBits(a, 15, 4)>>

\* Exclusive or of two hexadecimal digits a and b, as a table: row a + 1,
\* column b + 1.  The operators below that take a table t are handed this one.
XorNibble ==
    <<XorRow(0), XorRow(1), XorRow(2), XorRow(3), XorRow(4), XorRow(5), XorRow(6), XorRow(7),
      XorRow(8), XorRow(9), XorRow(10), XorRow(11), XorRow(12), XorRow(13), XorRow(14),
      XorRow(15)>>

\* Exclusive or of two 16-bit halves, digit by digit.
Xor16(t, a, b) ==
    4096 * t[(a \div 4096) + 1][(b \div 4096) + 1]
    + 256 * t[((a \div 256) % 16) + 1][((b \div 256) % 16) + 1]
    + 16 * t[((a \div 16) % 16) + 1][((b \div 16) % 16) + 1]
    + t[(a % 16) + 1][(b % 16) + 1]

\* a ^ b
U32Xor(t, a, b) == <<Xor16(t, a[1], b[1]), Xor16(t, a[2], b[2])>>

\* a.wrapping_add(b)
U32Add(a, b) ==
    <<(a[1] + b[1] + ((a[2] + b[2]) \div Half)) % Half, (a[2] + b[2]) % Half>>

\* a.rotate_left(n), 0 <= n < 32
U32RotL(a, n) ==
    LET hi == IF n >= 16 THEN a[2] ELSE a[1]
        lo == IF n >= 16 THEN a[1] ELSE a[2]
        k  == n % 16
        keep == Pow2(16 - k)
    IN  <<(hi % keep) * Pow2(k) + (lo \div keep),
          (lo % keep) * Pow2(k) + (hi \div keep)>>

\* (a ^ b).rotate_left(n)
XorRotL(t, a, b, n) == Then(U32Xor(t, a, b), LAMBDA x : U32RotL(x, n))

\* Half a quarter round on the words q = <<a, b, c, d>>:
\* a += b; d ^= a; d <<<= r1; c += d; b ^= c; b <<<= r2.
HalfQuarterRound(t, q, r1, r2) ==
    Then(U32Add(q[1], q[2]), LAMBDA a1 :
    Then(XorRotL(t, q[4], a1, r1), LAMBDA d1 :
    Then(U32Add(q[3], d1), LAMBDA c1 :
        <<a1, XorRotL(t, q[2], c1, r2), c1, d1>>)))

\* The quarter round of ChaCha on the words on = <<a, b, c, d>> of a state.
QuarterRound(t, s, on) ==
    Then(HalfQuarterRound(t, <<s[on[1]], s[on[2]], s[on[3]], s[on[4]]>>, 16, 12), LAMBDA h :
    Then(HalfQuarterRound(t, h, 8, 7), LAMBDA q :
        [s EXCEPT ![on[1]] = q[1], ![on[2]] = q[2], ![on[3]] = q[3], ![on[4]] = q[4]]))

\* The words the quarter rounds of a double round work on: the four columns,
\* then the four diagonals.
RoundWords ==
    <<<<1, 5, 9, 13>>, <<2, 6, 10, 14>>, <<3, 7, 11, 15>>, <<4, 8, 12, 16>>,
      <<1, 6, 11, 16>>, <<2, 7, 12, 13>>, <<3, 8, 9, 14>>, <<4, 5, 10, 15>>>>

\* The quarter rounds first..last of a run of double rounds, in order: the
\* i-th works on the words RoundWords gives for its place in its double
\* round.
RECURSIVE QuarterRounds(_, _, _, _)
QuarterRounds(t, s, first, last) ==
    IF first = last
    THEN QuarterRound(t, s, RoundWords[((first - 1) % Len(RoundWords)) + 1])
    ELSE Then(QuarterRounds(t, s, first, (first + last) \div 2), LAMBDA half :
             QuarterRounds(t, half, (first + last) \div 2 + 1, last))

\* A column round and a diagonal round.
DoubleRound(t, s) == QuarterRounds(t, s, 1, Len(RoundWords))

\* k double rounds, one after the other.
DoubleRounds(t, s, k) == QuarterRounds(t, s, 1, k * Len(RoundWords))

\* x + y of the words of two states, word by word.
AddWords(x, y) ==
    <<U32Add(x[1], y[1]), U32Add(x[2], y[2]), U32Add(x[3], y[3]), U32Add(x[4], y[4]),
      U32Add(x[5], y[5]), U32Add(x[6], y[6]), U32Add(x[7], y[7]), U32Add(x[8], y[8]),
      U32Add(x[9], y[9]), U32Add(x[10], y[10]), U32Add(x[11], y[11]), U32Add(x[12], y[12]),
      U32Add(x[13], y[13]), U32Add(x[14], y[14]), U32Add(x[15], y[15]), U32Add(x[16], y[16])>>

\* "expand 32-byte k"
ChaChaConstants ==
    <<<<24944, 30821>>, <<13088, 25710>>, <<31074, 11570>>, <<27424, 25972>>>>

\* The 16 words of the block a key gives at a block counter (stream 0):
\* eight rounds, and the input state added to the result.
ChaCha8Block(t, key, counter) ==
    Then(ChaChaConstants \o key
            \o <<<<(counter \div Half) % Half, counter % Half>>, <<0, 0>>, <<0, 0>>, <<0, 0>>>>,
         LAMBDA input :
    Then(DoubleRounds(t, input, 4), LAMBDA x8 :
        AddWords(x8, input)))

\* The words of k blocks in a row, from a block counter on.
RECURSIVE ChaCha8Blocks(_, _, _, _)
ChaCha8Blocks(t, key, counter, k) ==
    IF k = 0 THEN <<>>
    ELSE ChaCha8Blocks(t, key, counter, k - 1) \o ChaCha8Block(t, key, counter + k - 1)

\* The generator: ChaCha8Rng as rand_core's BlockRng holds it.  key is the
\* seed as eight words, counter the counter of the next block, results the
\* 64 words (four blocks) generated last, index the place of the next word
\* in results (64: none left).
NoWords16 ==
    <<<<0, 0>>, <<0, 0>>, <<0, 0>>, <<0, 0>>, <<0, 0>>, <<0, 0>>, <<0, 0>>, <<0, 0>>,
      <<0, 0>>, <<0, 0>>, <<0, 0>>, <<0, 0>>, <<0, 0>>, <<0, 0>>, <<0, 0>>, <<0, 0>>>>

NoResults == NoWords16 \o NoWords16 \o NoWords16 \o NoWords16

\* BlockRng::generate_and_set(0) without the index: four blocks into results.
generate(rng) ==
    Then(XorNibble, LAMBDA t :
    Then(ChaCha8Blocks(t, rng.key, rng.counter, 4), LAMBDA words :
        [rng EXCEPT !.results = words, !.counter = @ + 4]))

\* BlockRng::next_u32: <<word, generator>>.
next_u32(rng) ==
    IF rng.index >= 64
    THEN Then(generate(rng), LAMBDA fresh :
             <<fresh.results[1], [fresh EXCEPT !.index = 1]>>)
    ELSE <<rng.results[rng.index + 1], [rng EXCEPT !.index = @ + 1]>>

\* The u64 of a low and a high word.
U64Of(low, high) == <<low[2], low[1], high[2], high[1]>>

\* BlockRng::next_u64: <<u64, generator>>, the low word read first.  With
\* two words left they are taken; with none, from a new buffer; with one,
\* the low word is the one left and the high word the first of a new buffer.
next_u64(rng) ==
    IF rng.index < 63
    THEN <<U64Of(rng.results[rng.index + 1], rng.results[rng.index + 2]),
           [rng EXCEPT !.index = @ + 2]>>
    ELSE Then(generate(rng), LAMBDA fresh :
             IF rng.index >= 64
             THEN <<U64Of(fresh.results[1], fresh.results[2]), [fresh EXCEPT !.index = 2]>>
             ELSE <<U64Of(rng.results[64], fresh.results[1]), [fresh EXCEPT !.index = 1]>>)

\* a * b for two 16-bit limbs, as <<high, low>> with a * b = high * 2^16 + low.
LimbProduct(a, b) ==
    LET x == a * (b \div 256)
        y == a * (b % 256)
    IN  <<x \div 256, (x % 256) * 256 + y>>

\* a.wrapping_mul(b) of two u64.
U64Mul(a, b) ==
    LET P(i, j) == LimbProduct(a[i], b[j])
        c1 == P(1, 1)[2]
        c2 == P(1, 2)[2] + P(2, 1)[2] + P(1, 1)[1] + (c1 \div Half)
        c3 == P(1, 3)[2] + P(2, 2)[2] + P(3, 1)[2] + P(1, 2)[1] + P(2, 1)[1] + (c2 \div Half)
        c4 == P(1, 4)[2] + P(2, 3)[2] + P(3, 2)[2] + P(4, 1)[2]
              + P(1, 3)[1] + P(2, 2)[1] + P(3, 1)[1] + (c3 \div Half)
    IN  <<c1 % Half, c2 % Half, c3 % Half, c4 % Half>>

\* a.wrapping_add(b) of two u64.
U64Add(a, b) ==
    LET c1 == a[1] + b[1]
        c2 == a[2] + b[2] + (c1 \div Half)
        c3 == a[3] + b[3] + (c2 \div Half)
        c4 == a[4] + b[4] + (c3 \div Half)
    IN  <<c1 % Half, c2 % Half, c3 % Half, c4 % Half>>

\* a >> n of a u64, 0 <= n < 64.
U64Shr(a, n) ==
    LET q == n \div 16
        r == n % 16
        limb(i) == IF i > 4 THEN 0 ELSE a[i]
        out(i) == (limb(i + q) \div Pow2(r)) + (limb(i + q + 1) % Pow2(r)) * Pow2(16 - r)
    IN  <<out(1), out(2), out(3), out(4)>>

\* a ^ b of two u64.
U64Xor(t, a, b) ==
    <<Xor16(t, a[1], b[1]), Xor16(t, a[2], b[2]), Xor16(t, a[3], b[3]), Xor16(t, a[4], b[4])>>

\* The u64 of a seed (the seeds followed are below 2^31).
U64OfSeed(seed) == <<seed % Half, seed \div Half, 0, 0>>

\* const MUL: u64 = 6364136223846793005
PCG_MUL == <<32557, 19605, 62509, 22609>>

\* const INC: u64 = 11634580027462260723
PCG_INC == <<6131, 28606, 21732, 41334>>

\* One step of the PCG32 that SeedableRng::seed_from_u64 fills the seed
\* with: <<word, state>>.
Pcg32(state) ==
    Then(U64Add(U64Mul(state, PCG_MUL), PCG_INC), LAMBDA next :
    Then(XorNibble, LAMBDA t :
    Then(U64Xor(t, U64Shr(next, 18), next), LAMBDA mixed :
    Then(U64Shr(mixed, 27), LAMBDA xorshifted :
        <<U32RotL(<<xorshifted[2], xorshifted[1]>>, (32 - next[4] \div 2048) % 32),
          next>>))))

\* The words 1..n of the seed, from a PCG32 state: <<words, state>>.
RECURSIVE SeedWords(_, _)
SeedWords(state, n) ==
    IF n = 0 THEN <<<<>>, state>>
    ELSE Then(Pcg32(state), LAMBDA one :
         Then(SeedWords(one[2], n - 1), LAMBDA rest :
             <<<<one[1]>> \o rest[1], rest[2]>>))

\* A generator shared by all calls, which goes on from where the calls before
\* left it: the global state Level::new avoids by seeding a local generator.
seed_from_shared(seed) ==
    [key |-> SeedWords(U64OfSeed(seed + Len(levels)), 8)[1], counter |-> 0,
     results |-> NoResults, index |-> 64]

\* ChaCha8Rng::seed_from_u64(seed): the generator a seed gives.
seed_from_u64(seed) ==
    [key |-> SeedWords(U64OfSeed(seed), 8)[1], counter |-> 0,
     results |-> NoResults, index |-> 64]

\* The digits base 256 of v * range, lowest first, v given by its bytes
\* lowest first; the last digit holds all that is left.
RECURSIVE MulBytes(_, _, _)
MulBytes(bytes, range, carry) ==
    IF bytes = <<>> THEN <<carry>>
    ELSE <<(Head(bytes) * range + carry) % 256>>
             \o MulBytes(Tail(bytes), range, (Head(bytes) * range + carry) \div 256)

\* The bytes of a u64, lowest first.
BytesOf(v) ==
    <<v[1] % 256, v[1] \div 256, v[2] % 256, v[2] \div 256,
      v[3] % 256, v[3] \div 256, v[4] % 256, v[4] \div 256>>

\* v.wmul(range) for a range below 2^23: <<hi, the highest 24 bits of lo>>.
WMul(v, range) ==
    Then(MulBytes(BytesOf(v), range, 0), LAMBDA d :
        <<d[9], d[8] * 65536 + d[7] * 256 + d[6]>>)

\* rng.gen_range(low..high) for u64, by UniformInt::sample_single: the high
\* half of a widening multiplication, drawn again when the low half is
\* above the zone (range << range.leading_zeros()) - 1.  The result is
\* <<value, generator>>.
RECURSIVE GenRangeU64(_, _, _)
GenRangeU64(rng, low, high) ==
    Then(next_u64(rng), LAMBDA v :
    Then(WMul(v[1], high - low), LAMBDA m :
        IF m[2] \div Pow2(24 - BitLen(high - low)) < high - low
        THEN <<low + m[1], v[2]>>
        ELSE GenRangeU64(v[2], low, high)))

\* (rng.gen::<u32>() >> 9).into_float_with_exponent(0): a float of [1, 2).
Value1_2(word) == <<Pow2(23) + word[1] * 128 + (word[2] \div 512), -23>>

\* rng.gen_range(low..high) for f32, by UniformFloat::sample_single: a float
\* of [0, 1) from the highest 23 bits of a word, scaled and shifted into
\* [low, high), drawn again if rounding reaches high.  The result is
\* <<value, generator>>.
RECURSIVE GenRangeF32(_, _, _)
GenRangeF32(rng, low, high) ==
    Then(next_u32(rng), LAMBDA word :
    Then(F32Add(F32Mul(F32Sub(Value1_2(word[1]), F32Int(1)), F32Sub(high, low)), low),
         LAMBDA res :
            IF F32Lt(res, high) THEN <<res, word[2]>>
            ELSE GenRangeF32(word[2], low, high)))
----------------------------------------------------------------------------
(* Level::new *)

OBSTACLE_COUNT == 40
LIGHT_COUNT == 150
LEVEL_MIN_X == -10
LEVEL_MAX_X == 200

\* The decimal digits of n, most significant first.
RECURSIVE Digits(_)
Digits(n) == IF n < 10 THEN <<n>> ELSE Append(Digits(n \div 10), n % 10)

\* Pads a text on the left to a width with a character.
RECURSIVE PadLeft(_, _, _)
PadLeft(text, width, char) ==
    IF Len(text) >= width THEN text ELSE PadLeft(<<char>> \o text, width, char)

\* A text is a sequence of characters: a digit is its value, any other
\* character is a string.
HexDigits == 0..15

\* format!("{}", color) with no width: a mistake format!("{:06}") avoids.
FormatPlain(n) == Digits(n)

\* format!("{:06}", color)
Format06(n) == PadLeft(Digits(n), 6, 0)

\* Color::hex: Ok with the channels for 3, 4, 6 or 8 hexadecimal digits,
\* Err otherwise.
ColorHex(text) ==
    LET n == Len(text)
        byte(i) == 16 * text[2 * i - 1] + text[2 * i]
    IN  IF n \notin {3, 4, 6, 8} THEN [ok |-> FALSE, rgb |-> <<>>]
        ELSE IF \E i \in 1..n : text[i] \notin HexDigits THEN [ok |-> FALSE, rgb |-> <<>>]
        ELSE IF n \in {3, 4}
             THEN [ok |-> TRUE, rgb |-> <<17 * text[1], 17 * text[2], 17 * text[3]>>]
        ELSE [ok |-> TRUE, rgb |-> <<byte(1), byte(2), byte(3)>>]

\* random_material: <<material, generator state>>.  base_color holds the
\* Result of Color::hex; unwrapping an Err is the panic of Level::new.
random_material(rng) ==
    Then(GenRangeF32(rng, F32Zero, F32Int(1)), LAMBDA metallic :
    Then(GenRangeF32(metallic[2], F32Zero, F32Int(1)), LAMBDA perceptual_roughness :
    Then(GenRangeU64(perceptual_roughness[2], 0, 999999), LAMBDA color :
    Then(Format06(color[1]), LAMBDA text :
        <<[base_color |-> ColorHex(text),
           metallic |-> metallic[1],
           perceptual_roughness |-> perceptual_roughness[1]],
          color[2]>>))))

\* An obstacle whose x is drawn from 0.0 on: no buffer before the first
\* obstacle.
ObstacleStepFromZero(rng) ==
    Then(GenRangeF32(rng, F32Zero, F32Int(LEVEL_MAX_X)), LAMBDA x :
    Then(GenRangeF32(x[2], F32Zero, F32Int(1)), LAMBDA y :
    Then(random_material(y[2]), LAMBDA material :
        <<[x |-> x[1], y |-> y[1], material |-> material[1]], material[2]>>)))

\* An obstacle whose y is drawn before its x.
ObstacleStepYFirst(rng) ==
    Then(GenRangeF32(rng, F32Zero, F32Int(1)), LAMBDA y :
    Then(GenRangeF32(y[2], F32Int(1), F32Int(LEVEL_MAX_X)), LAMBDA x :
    Then(random_material(x[2]), LAMBDA material :
        <<[x |-> x[1], y |-> y[1], material |-> material[1]], material[2]>>)))

\* One obstacle: <<obstacle, generator state>>.
ObstacleStep(rng) ==
    Then(GenRangeF32(rng, F32Int(1), F32Int(LEVEL_MAX_X)), LAMBDA x :
    Then(GenRangeF32(x[2], F32Zero, F32Int(1)), LAMBDA y :
    Then(random_material(y[2]), LAMBDA material :
        <<[x |-> x[1], y |-> y[1], material |-> material[1]], material[2]>>)))

\* One light: <<light, generator state>>.
LightStep(rng) ==
    Then(GenRangeF32(rng, F32Int(1), F32Int(LEVEL_MAX_X)), LAMBDA x :
    Then(GenRangeF32(x[2], F32Zero, F32Int(10)), LAMBDA y :
        <<<<x[1], y[1]>>, y[2]>>))

\* One background object: <<bg_object, generator state>>.
BgStep(x, y, rng) ==
    Then(GenRangeF32(rng, F32Int(1), F32Int(2)), LAMBDA z :
    Then(random_material(z[2]), LAMBDA material :
        <<[x |-> F32Int(x), y |-> F32Int(y), z |-> F32Neg(z[1]),
           material |-> material[1]], material[2]>>))

\* The x values the wall is built for, taken with both ends: the
\* off-by-one the half-open range LEVEL_MIN_X..LEVEL_MAX_X avoids.
WallColumnsInclusive == LEVEL_MAX_X - LEVEL_MIN_X + 1

\* The x values of for x in LEVEL_MIN_X..LEVEL_MAX_X.
WallColumns == LEVEL_MAX_X - LEVEL_MIN_X

\* The y values of for y in 0..10.
WallRows == 10

\* No call of Level::new is running.
NoCall ==
    [active |-> FALSE, seed |-> 0, rng |-> <<>>,
     obstacles |-> <<>>, lights |-> <<>>, bg_objects |-> <<>>]

\* Level::new(seed) up to its first loop: the generator is seeded, the
\* vectors are empty.
Level_new(seed) ==
    [active |-> TRUE, seed |-> seed, rng |-> seed_from_u64(seed),
     obstacles |-> <<>>, lights |-> <<>>, bg_objects |-> <<>>]

\* Where a running call is: each loop runs until its vector has the length
\* of its range.
InObstacleLoop(c) == c.active /\ Len(c.obstacles) < OBSTACLE_COUNT

InLightLoop(c) ==
    c.active /\ ~InObstacleLoop(c) /\ Len(c.lights) < LIGHT_COUNT

InWallLoop(c) ==
    /\ c.active /\ ~InObstacleLoop(c) /\ ~InLightLoop(c)
    /\ Len(c.bg_objects) < WallColumns * WallRows

AtReturn(c) ==
    c.active /\ ~InObstacleLoop(c) /\ ~InLightLoop(c) /\ ~InWallLoop(c)

\* The wall loops at their n-th iteration (from 0): x outer, y inner.
WallX(k) == LEVEL_MIN_X + k \div WallRows

WallY(k) == k % WallRows

\* for _ in 0..LIGHT_COUNT, run to its end from run = <<lights, generator
\* state>>: the iterations first..last - 1 in order, as ObstacleLoop below
\* runs its own.
RECURSIVE LightSteps(_, _, _)
LightSteps(first, last, run) ==
    IF last > first + 1
    THEN Then(LightSteps(first, (first + last) \div 2, run), LAMBDA half :
             LightSteps((first + last) \div 2, last, half))
    ELSE IF last = first + 1
         THEN Then(LightStep(run[2]), LAMBDA one : <<Append(run[1], one[1]), one[2]>>)
    ELSE run

\* for x in LEVEL_MIN_X..LEVEL_MAX_X { for y in 0..10 }, run to its end
\* from run = <<bg_objects, generator state>>: the iterations
\* first..last - 1 in order.
RECURSIVE BgSteps(_, _, _)
BgSteps(first, last, run) ==
    IF last > first + 1
    THEN Then(BgSteps(first, (first + last) \div 2, run), LAMBDA half :
             BgSteps((first + last) \div 2, last, half))
    ELSE IF last = first + 1
         THEN Then(BgStep(WallX(first), WallY(first), run[2]), LAMBDA one :
                  <<Append(run[1], one[1]), one[2]>>)
    ELSE run

\* Color::hex(color).unwrap() meets no Err for any of the objects.
Unwraps(objects) ==
    \A i \in 1..Len(objects) : objects[i].material.base_color.ok

\* The Level a call that has run its loops returns.
Returned(c) ==
    [obstacles |-> c.obstacles, lights |-> c.lights, seed |-> c.seed,
     bg_objects |-> c.bg_objects]

\* for _ in 0..OBSTACLE_COUNT, run to its end from run = <<obstacles,
\* generator state>>.  The iterations first..last - 1 run in order, each
\* pushing its obstacle and going on from the generator state the one before
\* left; a range of more than one iteration is run as its first half
\* followed by its second half.
RECURSIVE ObstacleLoop(_, _, _)
ObstacleLoop(first, last, run) ==
    IF last > first + 1
    THEN Then(ObstacleLoop(first, (first + last) \div 2, run), LAMBDA half :
             ObstacleLoop((first + last) \div 2, last, half))
    ELSE IF last = first + 1
         THEN Then(ObstacleStep(run[2]), LAMBDA one : <<Append(run[1], one[1]), one[2]>>)
    ELSE run

\* The Level of Level::new(seed) as game_setup reads it in this model: the
\* seed and the obstacles, which the first loop of the call leaves.  (The
\* lights and the wall are drawn after them and become entities without a
\* Collider.)
LevelObstacles(seed) ==
    Then(seed_from_u64(seed), LAMBDA rng :
        [seed |-> seed, obstacles |-> ObstacleLoop(0, OBSTACLE_COUNT, <<<<>>, rng>>)[1]])

\* Color::hex(color).unwrap() has met an Err while the obstacles were built.
Panics(level) == ~Unwraps(level.obstacles)

\* game_setup's obstacle entities: one per obstacle of the level, at the
\* obstacle's (x, y).
ObstacleEntities(level) ==
    [i \in 1..Len(level.obstacles) |-> <<level.obstacles[i].x, level.obstacles[i].y>>]

----------------------------------------------------------------------------
(* Actions *)

\* A level generated from the seed the player has loaded.
GameLevelOfState == LevelObstacles(seed_state)

\* The level of game_setup: let level = Level::new(FIXED_RNG_SEED).
GameLevel == LevelObstacles(FIXED_RNG_SEED)

\* A game is on: the states game_setup runs in, its seed text, and one
\* entity of each kind it spawns.
AppInGame ==
    /\ game_state = "Game"
    /\ menu_state = "Disabled"
    /\ seed_state = FIXED_RNG_SEED
    /\ seed_text = SeedDisplay
    /\ clicks = 0
    /\ app_exit = FALSE
    /\ setups = 1
    /\ setup_pending = FALSE

\* game_setup: the entities of a new game, with any keys held.
GameInit ==
    /\ \E level \in {GameLevel} : obstacles = ObstacleEntities(level)
    /\ player = PlayerDefault
    /\ camera = CameraDefault
    /\ collision_events = 0
    /\ score = EmptyText
    /\ keyboard_input \in SUBSET Keys
    /\ ticks = 0
    /\ boost_ticks = 0
    /\ jump_ticks = 0
    /\ key_events = 0

\* A game, with no call of Level::new followed.
Init ==
    /\ levels = <<>>
    /\ call = NoCall
    /\ panicked = FALSE
    /\ GameInit
    /\ AppInGame

\* format!("{:.2}", x): the sign and the hundredths of x rounded to two
\* decimals, ties to even.
Format2(x) ==
    LET denom == Pow2(-x[2] - 2)
        scaled == 25 * Abs(x[1])
        q == scaled \div denom
        r == scaled % denom
        up == \/ 2 * r > denom
              \/ 2 * r = denom /\ q % 2 = 1
    IN  IF x[2] >= -2 THEN <<x[1] < 0, scaled * Pow2(x[2] + 2)>>
        ELSE IF x[2] <= -(MantBits + 8) THEN <<x[1] < 0, 0>>
        ELSE <<x[1] < 0, IF up THEN q + 1 ELSE q>>

\* score_text_update_system, run when the player's Transform holds x.
score_text_update_system(x) == Format2(x)

\* One tick of FixedTimestep::step(TIME_STEP): every system of the set runs
\* once, in an order the executor picks; the score system reads the
\* player's position before or after player_movement_system has run.  The
\* fixed timestep is the run criterion of the set, in the place of the one
\* on_update(GameState::Game) gave it, so the set runs in every GameState.
\* Each system asks for the single Player (Camera, ScoreText) and returns
\* when get_single_mut fails: with none (no game_setup yet) and with more
\* than one (a second game_setup) the run leaves the world as it is.
Tick ==
    /\ setups = 1
    /\ ticks < MaxTicks
    /\ collision_events < MaxEvents
    /\ \E w \in TickOutcomes(World, keyboard_input, obstacles) :
         /\ player' = w.player
         /\ camera' = w.camera
         /\ collision_events' = w.collision_events
         /\ \E x \in {player.x, w.player.x} : score' = score_text_update_system(x)
         /\ jump_ticks' = IF w.player.x = player.x THEN jump_ticks
                          ELSE IF w.player.jumping = "InAir" THEN jump_ticks + 1
                          ELSE 0
    /\ ticks' = ticks + 1
    /\ boost_ticks' = IF "Right" \in keyboard_input THEN boost_ticks + 1 ELSE boost_ticks
    /\ UNCHANGED <<obstacles, keyboard_input, key_events, levels, call, panicked>>
    /\ UNCHANGED app_vars

\* The player presses a key.
KeyPress ==
    /\ key_events < MaxKeyEvents
    /\ ticks < KeyWindow
    /\ \E k \in Keys \ keyboard_input : keyboard_input' = keyboard_input \cup {k}
    /\ key_events' = key_events + 1
    /\ UNCHANGED <<obstacles, player, camera, collision_events, score, ticks, boost_ticks,
                    jump_ticks, levels, call, panicked>>
    /\ UNCHANGED app_vars

\* The player releases a key.
KeyRelease ==
    /\ key_events < MaxKeyEvents
    /\ ticks < KeyWindow
    /\ \E k \in keyboard_input : keyboard_input' = keyboard_input \ {k}
    /\ key_events' = key_events + 1
    /\ UNCHANGED <<obstacles, player, camera, collision_events, score, ticks, boost_ticks,
                    jump_ticks, levels, call, panicked>>
    /\ UNCHANGED app_vars

Next == Tick \/ KeyPress \/ KeyRelease

\* Calls of Level::new followed at most.
MaxLevels == 3

\* A seed whose level has an obstacle at x = 1.0, the lowest value
\* gen_range(1.0..200.0) returns, with y = 124 * 2^-23: its third obstacle.
BoundarySeed == 922436750

\* The seeds the calls followed are made with.
Seeds == {FIXED_RNG_SEED, BoundarySeed}

\* The seed of the n-th call followed: the seeds take turns, so that a seed
\* comes back after a call with the other one.
SeedOfCall(n) == IF n % 2 = 1 THEN FIXED_RNG_SEED ELSE BoundarySeed

\* Level::new is called.
LevelCall ==
    /\ ~call.active
    /\ ~panicked
    /\ Len(levels) < MaxLevels
    /\ call' = Level_new(SeedOfCall(Len(levels) + 1))
    /\ UNCHANGED <<obstacles, player, camera, collision_events, score, keyboard_input,
                   ticks, boost_ticks, jump_ticks, key_events, levels, panicked>>
    /\ UNCHANGED app_vars

\* One iteration of for _ in 0..OBSTACLE_COUNT: an obstacle is pushed, or
\* the unwrap of random_material panics.
ObstacleIter ==
    /\ InObstacleLoop(call)
    /\ \E step \in {ObstacleStep(call.rng)} :
          IF step[1].material.base_color.ok
          THEN /\ call' = [call EXCEPT !.obstacles = Append(@, step[1]), !.rng = step[2]]
               /\ UNCHANGED panicked
          ELSE /\ panicked' = TRUE
               /\ call' = NoCall
    /\ UNCHANGED <<obstacles, player, camera, collision_events, score, keyboard_input,
                   ticks, boost_ticks, jump_ticks, key_events, levels>>
    /\ UNCHANGED app_vars

\* for _ in 0..LIGHT_COUNT: the lights are pushed.
LightLoop ==
    /\ InLightLoop(call)
    /\ \E run \in {LightSteps(Len(call.lights), LIGHT_COUNT, <<call.lights, call.rng>>)} :
          call' = [call EXCEPT !.lights = run[1], !.rng = run[2]]
    /\ UNCHANGED <<obstacles, player, camera, collision_events, score, keyboard_input,
                   ticks, boost_ticks, jump_ticks, key_events, levels, panicked>>
    /\ UNCHANGED app_vars

\* for x in LEVEL_MIN_X..LEVEL_MAX_X { for y in 0..10 }: the background
\* objects are pushed, or an unwrap of random_material panics.
WallLoop ==
    /\ InWallLoop(call)
    /\ \E run \in {BgSteps(Len(call.bg_objects), WallColumns * WallRows,
                             <<call.bg_objects, call.rng>>)} :
          IF Unwraps(run[1])
          THEN /\ call' = [call EXCEPT !.bg_objects = run[1], !.rng = run[2]]
               /\ UNCHANGED panicked
          ELSE /\ panicked' = TRUE
               /\ call' = NoCall
    /\ UNCHANGED <<obstacles, player, camera, collision_events, score, keyboard_input,
                   ticks, boost_ticks, jump_ticks, key_events, levels>>
    /\ UNCHANGED app_vars

\* The call returns its Level.
LevelReturn ==
    /\ AtReturn(call)
    /\ levels' = Append(levels, Returned(call))
    /\ call' = NoCall
    /\ UNCHANGED <<obstacles, player, camera, collision_events, score, keyboard_input,
                   ticks, boost_ticks, jump_ticks, key_events, panicked>>
    /\ UNCHANGED app_vars

\* A game on the Level that Level::new returns for a seed, no key held at
\* its start: game_setup with the seed it passes, and with another value
\* of the seed parameter of Level::new.
BufferInit ==
    /\ \E seed \in Seeds :
          \E level \in {LevelObstacles(seed)} :
              /\ levels = <<level>>
              /\ obstacles = ObstacleEntities(level)
    /\ call = NoCall
    /\ panicked = FALSE
    /\ player = PlayerDefault
    /\ camera = CameraDefault
    /\ collision_events = 0
    /\ score = EmptyText
    /\ keyboard_input = {}
    /\ ticks = 0
    /\ boost_ticks = 0
    /\ jump_ticks = 0
    /\ key_events = 0
    /\ AppInGame

\* Ticks after which the boost key changes in a game of BufferSpec.
BoostKeyTicks == {4, 62}

\* Presses and releases of the boost key in a game of BufferSpec.
MaxBoostEvents == 2

\* The player presses the boost key.
BoostPress ==
    /\ key_events < MaxBoostEvents
    /\ ticks \in BoostKeyTicks
    /\ "Right" \notin keyboard_input
    /\ keyboard_input' = keyboard_input \cup {"Right"}
    /\ key_events' = key_events + 1
    /\ UNCHANGED <<obstacles, player, camera, collision_events, score, ticks, boost_ticks,
                    jump_ticks, levels, call, panicked>>
    /\ UNCHANGED app_vars

\* The player releases the boost key.
BoostRelease ==
    /\ key_events < MaxBoostEvents
    /\ ticks \in BoostKeyTicks
    /\ "Right" \in keyboard_input
    /\ keyboard_input' = keyboard_input \ {"Right"}
    /\ key_events' = key_events + 1
    /\ UNCHANGED <<obstacles, player, camera, collision_events, score, ticks, boost_ticks,
                    jump_ticks, levels, call, panicked>>
    /\ UNCHANGED app_vars

BufferNext == Tick \/ BoostPress \/ BoostRelease

\* Key events of the jump key a run of the tap model takes.
MaxJumpEvents == 2

\* A game that starts with no key held.
TapInit == Init /\ keyboard_input = {}

\* The player presses the jump key.
JumpPress ==
    /\ key_events < MaxJumpEvents
    /\ ticks < KeyWindow
    /\ "Space" \notin keyboard_input
    /\ keyboard_input' = keyboard_input \cup {"Space"}
    /\ key_events' = key_events + 1
    /\ UNCHANGED <<obstacles, player, camera, collision_events, score, ticks, boost_ticks,
                    jump_ticks, levels, call, panicked>>
    /\ UNCHANGED app_vars

\* The player releases the jump key.
JumpRelease ==
    /\ key_events < MaxJumpEvents
    /\ ticks < KeyWindow
    /\ "Space" \in keyboard_input
    /\ keyboard_input' = keyboard_input \ {"Space"}
    /\ key_events' = key_events + 1
    /\ UNCHANGED <<obstacles, player, camera, collision_events, score, ticks, boost_ticks,
                    jump_ticks, levels, call, panicked>>
    /\ UNCHANGED app_vars

\* The jump key goes down and up between the ticks of the system set.
TapNext == Tick \/ JumpPress \/ JumpRelease

TapSpec == TapInit /\ [][TapNext]_vars

BufferSpec == BufferInit /\ [][BufferNext]_vars

\* A seed constant of menu.rs that has drifted from the one of game.rs.
MENU_SEED_DRIFTED == FIXED_RNG_SEED + 1

\* Fixed testing seed of menu.rs.
MENU_FIXED_RNG_SEED == 305419896

\* Button clicks followed at most.
MaxClicks == 5

\* Values of SeedState: at the start of the application and as ThreadRng
\* draws them.
AppSeeds == {FIXED_RNG_SEED, 0, BoundarySeed}

GameStates == {"MainMenu", "Game", "GameOverMenu"}
MenuStates == {"MainMenu", "Help", "LoadMenu", "GameOver", "Disabled"}

\* The buttons of the screen of a MenuState.
MenuButtons(screen) ==
    CASE screen = "MainMenu" -> {"NewGame", "LoadMenu", "Help", "Quit"}
      [] screen = "Help" -> {"BackToMainMenu"}
      [] screen = "LoadMenu" -> {"BackToMainMenu"}
      [] screen = "GameOver" -> {"Thanks"}
      [] OTHER -> {}

\* The application shows the main menu: menu_setup has run, no game yet,
\* and no entity of a game: player, camera and score hold what the first
\* game_setup will spawn them with.  The player holds the boost key
\* throughout.
AppInit ==
    /\ game_state = "MainMenu"
    /\ menu_state = "MainMenu"
    /\ seed_state \in AppSeeds
    /\ seed_text = NoSeedText
    /\ clicks = 0
    /\ app_exit = FALSE
    /\ setups = 0
    /\ setup_pending = FALSE
    /\ obstacles = <<>>
    /\ player = PlayerDefault
    /\ camera = CameraDefault
    /\ collision_events = 0
    /\ score = EmptyText
    /\ keyboard_input = {"Right"}
    /\ ticks = 0
    /\ boost_ticks = 0
    /\ jump_ticks = 0
    /\ key_events = 0
    /\ levels = <<>>
    /\ call = NoCall
    /\ panicked = FALSE

\* game_setup, run on entering GameState::Game: the entities of a game are
\* added to the world.  Nothing despawns the entities of an earlier game
\* (none carries OnGameScreen, the tag the exit of GameState::Game despawns),
\* so a second run leaves two Players, two Cameras and two ScoreTexts, each
\* new one as it was spawned, and the obstacles of both levels.
game_setup ==
    /\ setup_pending
    /\ ~panicked
    /\ \E level \in {GameLevel} :
          IF Panics(level)
          THEN /\ panicked' = TRUE
               /\ UNCHANGED <<levels, obstacles, seed_text, setups>>
          ELSE /\ levels' = Append(levels, level)
               /\ obstacles' = obstacles \o ObstacleEntities(level)
               /\ seed_text' = SeedDisplay
               /\ setups' = setups + 1
               /\ UNCHANGED panicked
    /\ setup_pending' = FALSE
    /\ IF setups = 0
       THEN /\ player' = PlayerDefault
            /\ camera' = CameraDefault
            /\ score' = EmptyText
       ELSE UNCHANGED <<player, camera, score>>
    /\ UNCHANGED <<collision_events, keyboard_input, ticks, boost_ticks, jump_ticks,
                   key_events, call>>
    /\ UNCHANGED <<game_state, menu_state, seed_state, clicks, app_exit>>

\* menu_action runs, and finds the button clicked on the screen.
Clicked(button) ==
    /\ ~app_exit
    /\ ~panicked
    /\ clicks < MaxClicks
    /\ game_state \in {"MainMenu", "GameOverMenu"}
    /\ button \in MenuButtons(menu_state)
    /\ clicks' = clicks + 1

GameVars == <<obstacles, player, camera, collision_events, score, keyboard_input,
              ticks, boost_ticks, jump_ticks, key_events, levels, call, setups,
              setup_pending>>

\* menu_action, MenuButtonAction::Quit
ClickQuit ==
    /\ Clicked("Quit")
    /\ app_exit' = TRUE
    /\ UNCHANGED <<game_state, menu_state, seed_state, seed_text, panicked>>
    /\ UNCHANGED GameVars

\* menu_action, MenuButtonAction::NewGame: GameState::Game is set, and
\* game_setup is to run on entering it.
ClickNewGame ==
    /\ Clicked("NewGame")
    /\ game_state' = "Game"
    /\ menu_state' = "Disabled"
    /\ setup_pending' = TRUE
    /\ UNCHANGED <<seed_state, seed_text, app_exit, panicked>>
    /\ UNCHANGED <<obstacles, player, camera, collision_events, score, keyboard_input,
                   ticks, boost_ticks, jump_ticks, key_events, levels, call, setups>>

\* menu_action, MenuButtonAction::LoadMenu
ClickLoadMenu ==
    /\ Clicked("LoadMenu")
    /\ menu_state' = "LoadMenu"
    /\ seed_state' = MENU_FIXED_RNG_SEED
    /\ UNCHANGED <<game_state, seed_text, app_exit, panicked>>
    /\ UNCHANGED GameVars

\* menu_action, MenuButtonAction::Help
ClickHelp ==
    /\ Clicked("Help")
    /\ menu_state' = "Help"
    /\ UNCHANGED <<game_state, seed_state, seed_text, app_exit, panicked>>
    /\ UNCHANGED GameVars

\* menu_action, MenuButtonAction::BackToMainMenu
ClickBackToMainMenu ==
    /\ Clicked("BackToMainMenu")
    /\ menu_state' = "MainMenu"
    /\ UNCHANGED <<game_state, seed_state, seed_text, app_exit, panicked>>
    /\ UNCHANGED GameVars

\* menu_action, MenuButtonAction::Thanks: the seed ThreadRng draws is set,
\* and setting the value SeedState already has is the Err the unwrap
\* panics on.
ClickThanks ==
    /\ Clicked("Thanks")
    /\ game_state' = "MainMenu"
    /\ menu_state' = "MainMenu"
    /\ \E seed \in AppSeeds :
          IF seed = seed_state
          THEN panicked' = TRUE /\ UNCHANGED seed_state
          ELSE seed_state' = seed /\ UNCHANGED panicked
    /\ UNCHANGED <<seed_text, app_exit>>
    /\ UNCHANGED GameVars

\* The game over screen is shown.  No code of src/ sets
\* GameState::GameOverMenu or MenuState::GameOver; the step is the one the
\* specification expects of the host once the player has collided, taken by
\* the module that declares GameState.  It changes the two states and
\* nothing else: the exit of GameState::Game despawns the entities tagged
\* OnGameScreen, and there are none.
GameOver ==
    /\ game_state = "Game"
    /\ ~setup_pending
    /\ ~panicked
    /\ player.collided
    /\ game_state' = "GameOverMenu"
    /\ menu_state' = "GameOver"
    /\ UNCHANGED <<obstacles, player, camera, collision_events, score, keyboard_input,
                   ticks, boost_ticks, jump_ticks, key_events, levels, call, panicked>>
    /\ UNCHANGED <<seed_state, seed_text, clicks, app_exit, setups, setup_pending>>

AppNext ==
    \/ ClickQuit
    \/ ClickNewGame
    \/ game_setup
    \/ ClickLoadMenu
    \/ ClickHelp
    \/ ClickBackToMainMenu
    \/ ClickThanks
    \/ GameOver
    \/ Tick

AppSpec == AppInit /\ [][AppNext]_vars

\* A run of the system set that finds its entities: the step of Tick, by
\* the count it advances.
TickRuns ==
    /\ setups = 1
    /\ ticks < MaxTicks
    /\ collision_events < MaxEvents
    /\ ticks' = ticks + 1

\* A game as src/ runs it: the fixed timestep runs the system set sixty
\* times a second for as long as the application runs, so a run that stays
\* possible is made.  No step of it leaves GameState::Game.
GameOverSpec == Init /\ [][Next]_vars /\ WF_ticks(TickRuns)

\* Calls of Level::new, one after the other, each followed through its
\* obstacle loop iteration by iteration and through its other loops.
LevelInit == Init /\ keyboard_input = {}

LevelNext == LevelCall \/ ObstacleIter \/ LightLoop \/ WallLoop \/ LevelReturn

LevelSpec == LevelInit /\ [][LevelNext]_vars

Spec == Init /\ [][Next]_vars

----------------------------------------------------------------------------
(* Distances in real arithmetic *)

\* The positions are floats, so the real distance between two of them is
\* the square root of a dyadic rational, and comparing it with a bound is
\* exact integer arithmetic.  The integers are longer than the model's own:
\* a natural number is the sequence of its digits in base 2^12, the least
\* significant first.
BigBase == Pow2(12)

RECURSIVE BigOf(_)
BigOf(k) == IF k = 0 THEN <<>> ELSE <<k % BigBase>> \o BigOf(k \div BigBase)

BigDigit(a, i) == IF i <= Len(a) THEN a[i] ELSE 0

BigZeros(k) == [i \in 1..k |-> 0]

\* The digits of a + b from the i-th on, a carry coming in.
RECURSIVE BigAddFrom(_, _, _, _)
BigAddFrom(a, b, i, carry) ==
    IF i > Len(a) /\ i > Len(b) THEN (IF carry = 0 THEN <<>> ELSE <<carry>>)
    ELSE Then(BigDigit(a, i) + BigDigit(b, i) + carry, LAMBDA s :
             <<s % BigBase>> \o BigAddFrom(a, b, i + 1, s \div BigBase))

BigAdd(a, b) == BigAddFrom(a, b, 1, 0)

\* The digits of a - b from the i-th on, for a >= b, a borrow coming in.
RECURSIVE BigSubFrom(_, _, _, _)
BigSubFrom(a, b, i, borrow) ==
    IF i > Len(a) THEN <<>>
    ELSE Then(BigDigit(a, i) - BigDigit(b, i) - borrow, LAMBDA s :
             <<(s + BigBase) % BigBase>>
                 \o BigSubFrom(a, b, i + 1, IF s < 0 THEN 1 ELSE 0))

\* a <= b, decided from the i-th digit down.
RECURSIVE BigLeFrom(_, _, _)
BigLeFrom(a, b, i) ==
    IF i = 0 THEN TRUE
    ELSE IF BigDigit(a, i) # BigDigit(b, i) THEN BigDigit(a, i) < BigDigit(b, i)
    ELSE BigLeFrom(a, b, i - 1)

BigLe(a, b) == BigLeFrom(a, b, IF Len(a) < Len(b) THEN Len(b) ELSE Len(a))

\* |a - b|
BigGap(a, b) == IF BigLe(a, b) THEN BigSubFrom(b, a, 1, 0) ELSE BigSubFrom(a, b, 1, 0)

\* The digits of a * d from the i-th on, for a digit d, a carry coming in.
RECURSIVE BigTimesFrom(_, _, _, _)
BigTimesFrom(a, d, i, carry) ==
    IF i > Len(a) THEN (IF carry = 0 THEN <<>> ELSE <<carry>>)
    ELSE Then(a[i] * d + carry, LAMBDA s :
             <<s % BigBase>> \o BigTimesFrom(a, d, i + 1, s \div BigBase))

\* a * 2^bits
BigShl(a, bits) == BigZeros(bits \div 12) \o BigTimesFrom(a, Pow2(bits % 12), 1, 0)

\* a * b, the digits of a taken from the i-th on.
RECURSIVE BigMulFrom(_, _, _)
BigMulFrom(a, b, i) ==
    IF i > Len(a) THEN <<>>
    ELSE BigAdd(BigZeros(i - 1) \o BigTimesFrom(b, a[i], 1, 0), BigMulFrom(a, b, i + 1))

BigMul(a, b) == BigMulFrom(a, b, 1)

\* A dyadic rational <<k, e>> is k * 2^e with k a long natural number.
\* Its digits when written with the exponent e, not above its own.
DyDigits(c, e) == BigShl(c[1], c[2] - e)

DyAdd(c, d) ==
    Then(IF c[2] < d[2] THEN c[2] ELSE d[2], LAMBDA e :
        <<BigAdd(DyDigits(c, e), DyDigits(d, e)), e>>)

DySquare(c) == <<BigMul(c[1], c[1]), 2 * c[2]>>

DyLe(c, d) ==
    Then(IF c[2] < d[2] THEN c[2] ELSE d[2], LAMBDA e :
        BigLe(DyDigits(c, e), DyDigits(d, e)))

\* |a - b| for floats a and b, with no rounding.
ExactGap(a, b) ==
    Then(IF a[1] = 0 THEN b[2] ELSE IF b[1] = 0 THEN a[2]
         ELSE IF a[2] < b[2] THEN a[2] ELSE b[2], LAMBDA e :
        Then(<<BigShl(BigOf(Abs(a[1])), IF a[1] = 0 THEN 0 ELSE a[2] - e),
               BigShl(BigOf(Abs(b[1])), IF b[1] = 0 THEN 0 ELSE b[2] - e)>>, LAMBDA ks :
            <<IF (a[1] < 0 /\ b[1] > 0) \/ (a[1] > 0 /\ b[1] < 0)
              THEN BigAdd(ks[1], ks[2])
              ELSE BigGap(ks[1], ks[2]), e>>))

\* The square of the Euclidean distance between an obstacle and the player.
SquaredDistance(o, p) ==
    DyAdd(DySquare(ExactGap(o[1], p.x)), DySquare(ExactGap(o[2], p.y)))

\* The squares of 1, of 1 - 2^-21 and of 1 + 2^-21.
SquareOfOne == <<BigOf(1), 0>>
SquareBelowOne == DySquare(<<BigOf(Pow2(21) - 1), -21>>)
SquareAboveOne == DySquare(<<BigOf(Pow2(21) + 1), -21>>)

\* An obstacle 2.0 or more from the player in x is further than any of the
\* three bounds from it.
FarInX(o, p) == DyLe(<<BigOf(2), 0>>, ExactGap(o[1], p.x))

\* Is the centre of some obstacle at a Euclidean distance of at most 1.0
\* from the player p, of at most 1 - 2^-21, of at most 1 + 2^-21.
EuclidAt(obs, p) ==
    Then([i \in {j \in 1..Len(obs) : ~FarInX(obs[j], p)} |-> SquaredDistance(obs[i], p)],
         LAMBDA sq :
            [one   |-> \E i \in DOMAIN sq : DyLe(sq[i], SquareOfOne),
             below |-> \E i \in DOMAIN sq : DyLe(sq[i], SquareBelowOne),
             above |-> \E i \in DOMAIN sq : DyLe(sq[i], SquareAboveOne)])

----------------------------------------------------------------------------
(* Properties *)

\* A step of the behaviour that is a tick.
IsTick == ticks' = ticks + 1

\* C1: once player.collided is true after some tick, it is true after
\* every later tick: no step of a run resets it to false.
C1_CollidedIsPermanent == [][player.collided => player'.collided]_vars

\* The test of the loop fails for every obstacle out of reach of the player,
\* whatever powf gives.
OutOfReachIsSound ==
    \A i \in 1..Len(obstacles) :
        OutOfReach(obstacles[i], player) => Overlaps(obstacles[i], player) = {FALSE}

\* The obstacles the check can find overlapping a player.
InReach(p) == {i \in 1..Len(obstacles) : TRUE \in Overlaps(obstacles[i], p)}

\* C1 is exercised: the player has collided and later ticks have run (three
\* events were sent for the one obstacle in reach).
C1_Witness ==
    /\ player.collided /\ collision_events >= 3
    /\ Cardinality(InReach(player)) = 1

\* C2: a tick that starts with player.collided and camera.stopped leaves
\* the player's position, velocities and jump state and the camera's
\* position and velocity unchanged, whatever keys are held.
C2_FrozenAfterCollision ==
    [][(IsTick /\ player.collided /\ camera.stopped)
         => (player' = player /\ camera' = camera)]_vars

\* C2 is exercised: ticks have run on a player frozen in the air with the
\* boost key held.
C2_Witness ==
    /\ player.collided /\ camera.stopped /\ collision_events >= 3
    /\ Cardinality(InReach(player)) = 1
    /\ player.jumping = "InAir" /\ "Right" \in keyboard_input

\* C3 (as claimed): after every tick the player's position.y is >= 0.
C3_YNeverNegative == ~F32Lt(player.y, F32Zero)

\* C4 (as claimed): after every tick that leaves the player OnFloor,
\* position.y = 0 and velocity_y = 0.
C4_OnFloorAtRest ==
    (ticks > 0 /\ player.jumping = "OnFloor")
        => (player.y = F32Zero /\ player.velocity_y = F32Zero)

\* C5 (as claimed): every tick takes effect as player_movement_system,
\* then camera_movement_system, then check_for_collisions, whatever order
\* the executor runs the systems in.
C5_RegistrationOrderEffect ==
    [][IsTick =>
         \E w \in RunSystems(RegistrationOrder, World, keyboard_input, obstacles) :
             player' = w.player /\ camera' = w.camera]_vars

\* What two runs can be compared on: positions and the collided flag.
Observed(w) == <<w.player.x, w.player.y, w.camera.x, w.player.collided>>

\* C6 (as claimed): two runs with the same obstacles and the same keys on
\* every tick agree on player position, camera position and collided flag
\* after every tick, i.e. from equal states a tick has one observable
\* outcome over all executions the registration allows.
C6_TickIsDeterministic ==
    Cardinality({Observed(w) : w \in TickOutcomes(World, keyboard_input, obstacles)}) = 1

\* C7 (as claimed): over a whole run at most one CollisionEvent is sent.
C7_AtMostOneEvent == collision_events <= 1

\* The player as the collision check of a run in the given order finds it.
PlayerAtCheck(order, w, keys) ==
    LET at(name) == CHOOSE i \in 1..3 : order[i] = name
    IN  IF at("player_movement_system") < at("check_for_collisions")
        THEN player_movement_system(w, keys).player
        ELSE w.player

\* The distances the check can compute between the player it finds and the
\* obstacles: a set of values for each obstacle.
DistancesAtCheck(order) ==
    Then(PlayerAtCheck(order, World, keyboard_input), LAMBDA p :
        [i \in 1..Len(obstacles) |-> Distance(obstacles[i], p)])

\* The players the collision check of a tick can find, over the orders of
\* the systems, each with what real arithmetic says of its distances.
EuclidAtCheck ==
    [p \in {PlayerAtCheck(order, World, keyboard_input) : order \in Orders} |->
        EuclidAt(obstacles, p)]

C9_NoDoubleJump ==
    (player.jumping = "InAir" /\ ~player.collided) =>
        \A order \in Orders :
            LET ends(keys) ==
                    {<<w.player.jumping, w.player.y, w.player.velocity_y>> :
                        w \in RunSystems(order, World, keys, obstacles)}
            IN  /\ ends(keyboard_input \cup {"Space"}) = ends(keyboard_input \ {"Space"})
                /\ Cardinality(ends(keyboard_input \cup {"Space"})) = 1

\* C9 is exercised on the clamping tick: with the jump key held since the
\* game started, the player is back OnFloor after a flight.
C9_Witness ==
    /\ "Space" \in keyboard_input /\ key_events = 0
    /\ ticks > 0 /\ player.jumping = "OnFloor" /\ ~player.collided

\* 60 times the position the closed form gives after n ticks of which b
\* had the boost key held: 60 * (-5 + (2 * (n - b) + 5 * b) / 60).
ClosedForm60(n, b) == 2 * (n - b) + 5 * b - 300

\* The float x is exactly k / 60.
IsSixtieth(x, k) ==
    IF x[1] = 0 THEN k = 0
    ELSE /\ -30 < x[2] /\ x[2] <= 0
         /\ (60 * x[1]) % Pow2(-x[2]) = 0
         /\ (60 * x[1]) \div Pow2(-x[2]) = k

\* The float x is within n * 2^-21 of k / 60 (x of magnitude below 8, so
\* that one position update rounds by less than 2^-21).
NearSixtieth(x, k, n) ==
    LET shift == -(x[2] + 21)
        scaled == 60 * Abs(x[1])
        lo == Sgn(x[1]) * (scaled \div Pow2(shift))
        hi == IF scaled % Pow2(shift) = 0 THEN lo ELSE lo + Sgn(x[1])
    IN  /\ shift >= 0
        /\ k * Pow2(21) - 60 * n <= IF lo < hi THEN lo ELSE hi
        /\ (IF lo < hi THEN hi ELSE lo) <= k * Pow2(21) + 60 * n

\* C10 (as claimed): while the player has not collided, position.x is
\* exactly -5 + (2 * (N - B) + 5 * B) / 60 after N ticks of which B had the
\* boost key held.
C10_ExactClosedForm ==
    ~player.collided => IsSixtieth(player.x, ClosedForm60(ticks, boost_ticks))

\* C10 (amended): every tick that leaves the player not collided adds the
\* f32 product of the velocity (2.0, or 5.0 with the boost key held) and
\* TIME_STEP to position.x in f32 arithmetic, whatever the jump key and the
\* jump state; and for as long as position.x is of magnitude below 8.0,
\* after N such ticks of which B had boost held it is within N * 2^-21 of
\* -5 + (2 * (N - B) + 5 * B) / 60.  The first MaxTicks ticks of a game
\* stay below 8.0.
C10_RoundedAdvance ==
    [][(IsTick /\ ~player'.collided) =>
         /\ player'.x = F32Add(player.x, F32Mul(IF "Right" \in keyboard_input
                                                 THEN F32Int(5) ELSE F32Int(2),
                                                 F32Div(F32Int(1), F32Int(60))))
         /\ F32Lt(F32Abs(player'.x), F32Int(8))
         /\ F32Lt(F32Abs(player'.x), F32Int(8)) =>
                NearSixtieth(player'.x, ClosedForm60(ticks', boost_ticks'), ticks')]_vars

\* C10 is exercised: ticks with and without boost have moved a player
\* that is in the air and has not collided.
C10_Witness ==
    /\ ~player.collided /\ player.jumping = "InAir"
    /\ 0 < boost_ticks /\ boost_ticks < ticks /\ ticks >= 60

\* C11 (as claimed, read up to the rounding of the two f32 positions):
\* after every tick camera x minus player x is its initial value 5, to
\* within 2^-10, far less than the smallest step 2/60.
C11_CameraLockstep ==
    F32Lt(F32Abs(F32Sub(F32Sub(camera.x, player.x), F32Int(5))), <<Pow2(MantBits - 1), -33>>)

\* C16 (as claimed): while the player is InAir, k ticks after the jump was
\* triggered velocity_y is exactly 5 - 5 * k / 60.
C16_ExactVelocity ==
    (player.jumping = "InAir" /\ ~player.collided)
        => IsSixtieth(player.velocity_y, 300 - 5 * jump_ticks)

\* C16 (amended): the tick that triggers a jump leaves velocity_y at
\* 5.0 - GRAVITY * TIME_STEP and every later tick of the flight subtracts
\* GRAVITY * TIME_STEP once more, in f32 arithmetic; after k ticks of the
\* flight velocity_y is within k * 2^-21 of 5 - 5 * k / 60.
C16_RoundedVelocity ==
    [][(IsTick /\ player'.x # player.x /\ player'.jumping = "InAir") =>
         /\ player'.velocity_y =
                F32Sub(IF player.jumping = "OnFloor" THEN F32Int(5) ELSE player.velocity_y,
                       F32Mul(F32Int(5), F32Div(F32Int(1), F32Int(60))))
         /\ NearSixtieth(player'.velocity_y, 300 - 5 * jump_ticks', jump_ticks')]_vars

\* C16 is exercised: a flight has passed its top and is on its way down.
C16_Witness ==
    /\ player.jumping = "InAir" /\ ~player.collided /\ jump_ticks >= 100
    /\ F32Lt(player.velocity_y, F32Zero)

\* The number of hundredths a score text stands for.
ScoreValue(t) == IF t[1] THEN -t[2] ELSE t[2]

\* C17 (as claimed): after every tick the published score is the player's
\* current x (to two decimals); it never decreases and it no longer changes
\* once the player has collided.
C17_ScoreIsPosition ==
    [][IsTick =>
         /\ score' = Format2(player'.x)
         /\ score # EmptyText => ScoreValue(score') >= ScoreValue(score)
         /\ (player.collided /\ score # EmptyText) => score' = score]_vars

\* C20: the jump state changes only from OnFloor to InAir, in a tick with
\* the jump key held, the player not collided and position.y = 0 before the
\* tick, and from InAir to OnFloor, in a tick that starts with
\* position.y < 0; a tick whose jump trigger fires ends InAir.
C20_JumpStateMachine ==
    [][/\ (player.jumping = "OnFloor" /\ player'.jumping = "InAir") =>
             /\ IsTick /\ "Space" \in keyboard_input
             /\ ~player.collided /\ player.y = F32Zero
       /\ (player.jumping = "InAir" /\ player'.jumping = "OnFloor") =>
             /\ IsTick /\ F32Lt(player.y, F32Zero)
       /\ (IsTick /\ player.jumping = "OnFloor" /\ "Space" \in keyboard_input
              /\ player'.x # player.x) =>
             player'.jumping = "InAir"]_vars

\* C20 is exercised: the player has jumped, landed and jumped again.
C20_Witness ==
    /\ player.jumping = "InAir" /\ ~player.collided
    /\ jump_ticks >= 1 /\ ticks > jump_ticks + 100

----------------------------------------------------------------------------
(* Level generation *)

\* A step of the behaviour in which a call of Level::new returns.
IsReturn == Len(levels') = Len(levels) + 1

\* The cells of the background wall.
WallCells == {<<F32Int(x), F32Int(y)>> : x \in (-10)..199, y \in 0..9}

\* The level has the shape claimed.
HasShape(level) ==
    LET cell(k) == <<level.bg_objects[k].x, level.bg_objects[k].y>>
    IN  /\ Len(level.obstacles) = 40
        /\ Len(level.lights) = 150
        /\ Len(level.bg_objects) = 2100
        /\ {cell(k) : k \in 1..Len(level.bg_objects)} = WallCells
        /\ Cardinality(WallCells) = Len(level.bg_objects)

\* C12: every level Level::new returns has exactly 40 obstacles, 150 lights
\* and 2100 background objects, and the (x, y) of the background objects are
\* the cells x in [-10, 199], y in [0, 9], each cell once.
C12_LevelShape ==
    [][IsReturn => HasShape(levels'[Len(levels')])]_vars

\* Levels of two seeds were returned.
C12_Witness ==
    /\ Len(levels) >= 2
    /\ levels[1].seed # levels[2].seed
    /\ Len(levels[2].bg_objects) = 2100

ColorInts == {0, 1, 9, 10, 99, 100, 999, 1000, 9999, 10000, 99999, 100000, 999998}

\* The two hexadecimal digits of a colour channel.
Nibbles(channel) == {channel \div 16, channel % 16}

\* The materials the running call has made.
Materials(c) ==
    {c.obstacles[i].material : i \in 1..Len(c.obstacles)}
        \cup {c.bg_objects[i].material : i \in 1..Len(c.bg_objects)}

\* C15: the zero-padded rendering of a colour integer of [0, 999999) has
\* exactly six characters, all of them hexadecimal (indeed decimal) digits, so
\* Color::hex returns Ok, the unwrap succeeds and Level::new never panics.
C15_ColorAlwaysParses ==
    /\ ~panicked
    /\ \A m \in Materials(call) :
           /\ m.base_color.ok
           /\ Len(m.base_color.rgb) = 3
           /\ \A c \in 1..3 : Nibbles(m.base_color.rgb[c]) \subseteq 0..9
    /\ \A k \in ColorInts :
           /\ Len(Format06(k)) = 6
           /\ \A j \in 1..6 : Format06(k)[j] \in HexDigits
           /\ ColorHex(Format06(k)).ok

\* A call has made all its materials, one of them from a colour integer
\* below 100000, which the padding fills up to six digits.
C15_Witness ==
    /\ ~panicked
    /\ AtReturn(call)
    /\ \E m \in Materials(call) : m.base_color.ok /\ m.base_color.rgb[1] < 16

----------------------------------------------------------------------------
(* The buffer before the first obstacle *)

\* Generated by gen_range(1.0..LEVEL_MAX_X) and gen_range(0.0..1.0).
InLevelRange(o) ==
    /\ F32Le(F32Int(1), o[1]) /\ F32Lt(o[1], F32Int(LEVEL_MAX_X))
    /\ F32Le(F32Zero, o[2]) /\ F32Lt(o[2], F32Int(1))

\* The largest distance below 0 that 1.0 - x still rounds to 1.0 at: 2^-24.
HalfUlpOfOne == <<Pow2(MantBits - 1), -47>>

----------------------------------------------------------------------------
(* The seed of a game *)

\* C18: while a game is on, the seed its screen shows is the seed the
\* game's Level was generated from.
C18_ShownSeedIsLevelSeed ==
    (game_state = "Game" /\ ~setup_pending /\ ~panicked) =>
        /\ levels # <<>>
        /\ seed_text.prefix = "Seed: 0x"
        /\ HexValue(seed_text.digits) = levels[Len(levels)].seed
        /\ Len(obstacles) = OBSTACLE_COUNT * Len(levels)
        /\ SubSeq(obstacles, Len(obstacles) - OBSTACLE_COUNT + 1, Len(obstacles))
               = ObstacleEntities(levels[Len(levels)])

C18_Witness ==
    /\ game_state = "Game"
    /\ Len(levels) >= 2
    /\ seed_state # FIXED_RNG_SEED
    /\ seed_text.digits = <<1, 2, 3, 4, 5, 6, 7, 8>>

\* A click on Load Game is handled / a click on Thanks is handled / a game
\* starts: game_setup runs.
LoadStep == menu_state # "LoadMenu" /\ menu_state' = "LoadMenu"
ThanksStep == game_state = "GameOverMenu" /\ game_state' = "MainMenu"
GameStartStep == setup_pending /\ ~setup_pending'

\* C19: a click on Load Game leaves SeedState at 0x12345678; SeedState then
\* keeps that value until a click on Thanks; and a New Game started while
\* SeedState is 0x12345678 is generated from 0x12345678.
C19_LoadedSeedStartsGame ==
    [][ /\ LoadStep => seed_state' = 305419896
        /\ seed_state' # seed_state => (LoadStep \/ ThanksStep)
        /\ (GameStartStep /\ seed_state = 305419896) =>
               /\ Len(levels') = Len(levels) + 1
               /\ levels'[Len(levels')] = LevelObstacles(305419896)
               /\ levels'[Len(levels')].seed = 305419896 ]_vars

C19_Witness ==
    /\ game_state = "Game"
    /\ seed_state = 305419896
    /\ Len(levels) = 2
    /\ clicks = 5
    /\ levels[2].seed = 305419896

----------------------------------------------------------------------------
(* The length of a jump *)

\* C21: a jump of a player that does not collide ends, after a number of
\* ticks that is the same for every jump: the player is InAir at the end of
\* 119 ticks and OnFloor at the end of the 120th, whatever the boost key,
\* the jump key during the flight and the ticks spent on the floor before;
\* a player that has collided InAir stays InAir.
C21_FlightLength ==
    [][IsTick =>
         /\ (player.jumping = "InAir" /\ player'.jumping = "OnFloor") => jump_ticks = 119
         /\ (player'.jumping = "InAir" /\ ~player'.collided) => jump_ticks' <= 119
         /\ (player.jumping = "InAir" /\ player.collided) => player'.jumping = "InAir"]_vars

\* C21 is exercised: a jump that started after ticks on the floor has ended
\* (the landing tick leaves velocity_y at one step of gravity below 0).
C21_Witness ==
    /\ player.jumping = "OnFloor" /\ ~player.collided
    /\ ticks > 120
    /\ player.velocity_y = F32Neg(GravityStep)

----------------------------------------------------------------------------
(* Collision events per tick *)

\* C22 (as claimed): the events a tick sends are as many as the obstacles
\* within distance 1.0 of the player at check time, and a tick that starts
\* with the player already collided sends none.
C22_EventsOnFirstDetectionOnly ==
    [][IsTick =>
         /\ \E order \in Orders :
               collision_events' - collision_events \in
                   {Cardinality(found) :
                       found \in Overlapping(obstacles,
                                             PlayerAtCheck(order, World, keyboard_input))}
         /\ player.collided => collision_events' = collision_events]_vars

\* C23: between ticks the player's collided flag and the camera's stopped flag
\* are equal: both start false and the collision check sets them together.
C23_CollidedIffStopped == player.collided = camera.stopped

\* A collision was detected: both flags are set and an event was sent.
C23_Witness ==
    /\ player.collided /\ camera.stopped
    /\ collision_events > 0
    /\ ticks > 0

-----------------------------------------------------------------------------
(* The order of the draws *)

\* The draws of one call of Level::new, as the loops of the code count them.
TotalDraws ==
    OBSTACLE_COUNT * 5 + LIGHT_COUNT * 2 + (LEVEL_MAX_X - LEVEL_MIN_X) * 10 * 4

\* The draws a call has made: a draw is one call of gen_range.
DrawsMade(c) == 5 * Len(c.obstacles) + 2 * Len(c.lights) + 4 * Len(c.bg_objects)

\* The words a generator has handed out.
WordsRead(rng) == IF rng.counter = 0 THEN 0 ELSE (rng.counter - 4) * 16 + rng.index

\* Draw i of a call as the order claimed counts it: <<value, generator>>.
ClaimedDraw(rng, i) ==
    LET obstacle == (i - 1) % 5
        light == (i - OBSTACLE_COUNT * 5 - 1) % 2
        tile == (i - OBSTACLE_COUNT * 5 - LIGHT_COUNT * 2 - 1) % 4
    IN  IF i <= OBSTACLE_COUNT * 5
        THEN CASE obstacle = 0 -> GenRangeF32(rng, F32Int(1), F32Int(LEVEL_MAX_X))
               [] obstacle \in {1, 2, 3} -> GenRangeF32(rng, F32Zero, F32Int(1))
               [] obstacle = 4 -> GenRangeU64(rng, 0, 999999)
        ELSE IF i <= OBSTACLE_COUNT * 5 + LIGHT_COUNT * 2
        THEN CASE light = 0 -> GenRangeF32(rng, F32Int(1), F32Int(LEVEL_MAX_X))
               [] light = 1 -> GenRangeF32(rng, F32Zero, F32Int(10))
        ELSE CASE tile = 0 -> GenRangeF32(rng, F32Int(1), F32Int(2))
               [] tile \in {1, 2} -> GenRangeF32(rng, F32Zero, F32Int(1))
               [] tile = 3 -> GenRangeU64(rng, 0, 999999)

\* The values of the draws first..last, in order: <<values, generator>>.
RECURSIVE DrawStream(_, _, _)
DrawStream(rng, first, last) ==
    IF first > last THEN <<<<>>, rng>>
    ELSE IF first = last
         THEN Then(ClaimedDraw(rng, first), LAMBDA one : <<<<one[1]>>, one[2]>>)
    ELSE Then(DrawStream(rng, first, (first + last) \div 2), LAMBDA head :
         Then(DrawStream(head[2], (first + last) \div 2 + 1, last), LAMBDA tail :
             <<head[1] \o tail[1], tail[2]>>))

\* Draw i of the stream is the given float.
FloatDraw(stream, i, value) == stream[i] = value

\* Draw i of the stream is the colour integer of the given material.
ColorDraw(stream, i, material) ==
    material.base_color = ColorHex(Format06(stream[i]))

\* Draws i, i + 1 and i + 2 are the material's metallic, perceptual_roughness
\* and colour.
MaterialDraws(stream, i, material) ==
    /\ FloatDraw(stream, i, material.metallic)
    /\ FloatDraw(stream, i + 1, material.perceptual_roughness)
    /\ ColorDraw(stream, i + 2, material)

\* Every field of the level comes from the draw its place in the loops gives.
FedInOrder(level, stream) ==
    /\ Len(level.obstacles) = OBSTACLE_COUNT
    /\ Len(level.lights) = LIGHT_COUNT
    /\ Len(level.bg_objects) = (LEVEL_MAX_X - LEVEL_MIN_X) * 10
    /\ \A k \in 1..Len(level.obstacles) :
          /\ FloatDraw(stream, 5 * (k - 1) + 1, level.obstacles[k].x)
          /\ FloatDraw(stream, 5 * (k - 1) + 2, level.obstacles[k].y)
          /\ MaterialDraws(stream, 5 * (k - 1) + 3, level.obstacles[k].material)
    /\ \A k \in 1..Len(level.lights) :
          /\ FloatDraw(stream, OBSTACLE_COUNT * 5 + 2 * (k - 1) + 1, level.lights[k][1])
          /\ FloatDraw(stream, OBSTACLE_COUNT * 5 + 2 * (k - 1) + 2, level.lights[k][2])
    /\ \A k \in 1..Len(level.bg_objects) :
          /\ level.bg_objects[k].x = F32Int(LEVEL_MIN_X + (k - 1) \div 10)
          /\ level.bg_objects[k].y = F32Int((k - 1) % 10)
          /\ FloatDraw(stream, OBSTACLE_COUNT * 5 + LIGHT_COUNT * 2 + 4 * (k - 1) + 1,
                       F32Neg(level.bg_objects[k].z))
          /\ MaterialDraws(stream, OBSTACLE_COUNT * 5 + LIGHT_COUNT * 2 + 4 * (k - 1) + 2,
                           level.bg_objects[k].material)

\* C24: Level::new draws in one fixed order for every seed: per obstacle x, y,
\* metallic, perceptual_roughness, colour; per light x, y; per background tile
\* (x outer, y inner, both ascending) z, metallic, perceptual_roughness,
\* colour; 8900 draws, the i-th always feeding the same field of the same
\* object.  The level a call returns is the one the 8900 draws of that order
\* feed, made one after the other from the generator of the call's seed, and
\* the call has left its generator where the last of them leaves it.
C24_DrawOrder ==
    [][IsReturn =>
         \E level \in {levels'[Len(levels')]} :
         \E drawn \in {DrawStream(seed_from_u64(level.seed), 1, TotalDraws)} :
             /\ TotalDraws = 8900
             /\ DrawsMade(call) = TotalDraws
             /\ Len(drawn[1]) = TotalDraws
             /\ FedInOrder(level, drawn[1])
             /\ call.rng = drawn[2]]_vars

\* A call with each seed has made all its draws, the last of them the colour
\* of the last tile of the wall.  The draws have read more words of the
\* generator than there are draws: every colour takes two or more.
C24_Witness ==
    /\ Len(levels) = 1
    /\ levels[1].seed = FIXED_RNG_SEED
    /\ DrawsMade(levels[1]) = TotalDraws
    /\ AtReturn(call)
    /\ call.seed # FIXED_RNG_SEED
    /\ DrawsMade(call) = TotalDraws
    /\ WordsRead(call.rng) >= TotalDraws + OBSTACLE_COUNT + WallColumns * WallRows

-----------------------------------------------------------------------------
(* Jumping with the key held *)

\* C27: with the jump key held, the tick that clamps the player to the floor
\* does not start a jump (the trigger is evaluated before the clamp) and the
\* tick after it does: between two jumps the player is OnFloor at the end of
\* exactly one tick.
C27_OneFloorTickBetweenJumps ==
    [][(IsTick /\ "Space" \in keyboard_input /\ player'.x # player.x) =>
         /\ (player.jumping = "InAir" /\ F32Lt(player.y, F32Zero)) =>
                /\ player'.jumping = "OnFloor"
                /\ player'.y = F32Zero
         /\ player.jumping = "OnFloor" => player'.jumping = "InAir"
         /\ (player.jumping = "OnFloor" /\ ticks > 0) => jump_ticks' = 1]_vars

\* The jump key held since the game started: the first jump landed in tick
\* 120 and the second jump started in tick 121.
C27_Witness ==
    /\ "Space" \in keyboard_input /\ key_events = 0
    /\ ticks = 121 /\ jump_ticks = 1
    /\ player.jumping = "InAir" /\ ~player.collided

-----------------------------------------------------------------------------
(* Key presses between ticks *)

\* C28 (as claimed): a tick sees the keys only as they are when it runs, and
\* no press is lost: a tick that starts OnFloor with the jump key held starts
\* a jump, and so does the first tick of a game in whose window the jump key
\* was pressed, however often.
C28_PressNeverLost ==
    [][(IsTick /\ ~player.collided /\ player'.x # player.x) =>
         /\ ("Space" \in keyboard_input /\ player.jumping = "OnFloor") =>
                player'.jumping = "InAir"
         /\ (ticks = 0 /\ key_events >= 1) => player'.jumping = "InAir"]_vars

-----------------------------------------------------------------------------
(* The end of a game *)

\* C25 (as claimed): a collision ends the game: a game whose player has
\* collided, or that has sent a Collision event, eventually shows the game
\* over menu; it does not stay in GameState::Game with a frozen player.
C25_CollisionLeadsToGameOver ==
    (game_state = "Game" /\ (player.collided \/ collision_events > 0))
        ~> (game_state = "GameOverMenu" /\ menu_state = "GameOver")

-----------------------------------------------------------------------------
(* The seed of the next game, and the unwraps of the menu *)

\* C26 (as claimed): a game started from the menu generates its level from
\* the seed SeedState holds when the game starts, also after a click on
\* Thanks has drawn a new seed.
C26_GameFromSeedState ==
    [][(GameStartStep /\ ~panicked') =>
          /\ Len(levels') = Len(levels) + 1
          /\ levels'[Len(levels')].seed = seed_state]_vars

\* C29 (as claimed): no click makes menu_action panic: every state change it
\* unwraps succeeds.
C29_ClicksNeverPanic ==
    [][clicks' = clicks + 1 => ~panicked']_vars

====

